---- MODULE Spec2Model ----
(***************************************************************************)
(* Model of the Passless class of passless.js: the passkey orchestration   *)
(* (challenge store, credential store, the four async passkey operations,  *)
(* each split at its await on the WebAuthn library) and the OAuth helpers   *)
(* (getAuthUrl, exchangeCode).                                             *)
(***************************************************************************)
EXTENDS Integers, Sequences, FiniteSets, TLC

\* ---------------------------------------------------------------- bounds
NumCalls == 2
MaxCounter == 1
MaxTime == 1
MaxStarted == 3

\* ------------------------------------------------------------ input sets
Calls == 1..NumCalls
Users == {"u1", "u2"}
Challenges == {"c1", "c2"}
CredentialIDs == {<<1>>, <<251, 240>>}
PublicKeys == {"pk1"}
TransportInputs == {<<>>, <<"usb">>}
Counters == 0..MaxCounter

\* -------------------------------------------------- Map (get/set/delete)
EmptyMap == [k \in {} |-> 0]

MapHas(m, k) == k \in DOMAIN m

MapSet(m, k, v) == [x \in (DOMAIN m) \cup {k} |-> IF x = k THEN v ELSE m[x]]

MapDelete(m, k) == [x \in (DOMAIN m) \ {k} |-> m[x]]

\* Map.get of a missing key is undefined
Undefined == [userId |-> "", createdAt |-> 0, credentialID |-> <<>>,
              credentialPublicKey |-> "", counter |-> 0, transports |-> <<>>]

MapGet(m, k) == IF k \in DOMAIN m THEN m[k] ELSE Undefined

\* --------------------------------------------------------------- base64url
B64Alphabet ==
  << "A","B","C","D","E","F","G","H","I","J","K","L","M","N","O","P",
     "Q","R","S","T","U","V","W","X","Y","Z","a","b","c","d","e","f",
     "g","h","i","j","k","l","m","n","o","p","q","r","s","t","u","v",
     "w","x","y","z","0","1","2","3","4","5","6","7","8","9","-","_" >>

B64Char(n) == B64Alphabet[n + 1]

RECURSIVE Base64url(_)
Base64url(bytes) ==
  IF Len(bytes) = 0 THEN <<>>
  ELSE IF Len(bytes) = 1 THEN
    << B64Char(bytes[1] \div 4), B64Char((bytes[1] % 4) * 16) >>
  ELSE IF Len(bytes) = 2 THEN
    << B64Char(bytes[1] \div 4),
       B64Char((bytes[1] % 4) * 16 + (bytes[2] \div 16)),
       B64Char((bytes[2] % 16) * 4) >>
  ELSE
    << B64Char(bytes[1] \div 4),
       B64Char((bytes[1] % 4) * 16 + (bytes[2] \div 16)),
       B64Char((bytes[2] % 16) * 4 + (bytes[3] \div 64)),
       B64Char(bytes[3] % 64) >> \o Base64url(SubSeq(bytes, 4, Len(bytes)))

\* variant: the credential id used as the key without encoding
CredentialKeyRaw(credentialID) == credentialID

\* Buffer.from(credentialID).toString('base64url')
CredentialKey(credentialID) == Base64url(credentialID)

\* identifiers a client may put in response.id / response.rawId
ResponseIds == {Base64url(b) : b \in CredentialIDs} \cup {<<"Z","g">>}

VARIABLES
  config,           \* this.config
  challengeStore,   \* this.challengeStore: challenge -> {userId, createdAt}
  credentialStore,  \* this.credentialStore: key -> credential record
  pc,               \* per passkey call: the library call it is suspended at
  local,            \* per passkey call: the values it holds across the await
  ret,              \* what the most recently completed passkey call returned or threw
  now,              \* Date.now()
  consumed,         \* history: challenges verified and not stored again since
  started,          \* history: number of passkey calls made so far
  regIssued,        \* history: stored challenges written by createPasskeyRegistrationOptions
  authUrl,          \* what the most recent getAuthUrl returned or threw
  xpc,              \* exchangeCode: the fetch it is suspended at
  xlocal,           \* exchangeCode: the values it holds across the awaits
  http,             \* exchangeCode: the requests issued by the current call
  xret              \* what the most recent exchangeCode returned or threw

passkeyVars ==
  <<challengeStore, credentialStore, pc, local, ret, now, consumed, started, regIssued>>
oauthVars == <<authUrl, xpc, xlocal, http, xret>>
vars == <<config, passkeyVars, oauthVars>>

\* --------------------------------------------------------------- results
NoLocal == [op |-> "none", args |-> <<>>, challenge |-> ""]
NoResult == [op |-> "none", args |-> <<>>, kind |-> "none"]

\* a result names the call (op, its arguments as resolved) and its outcome
Throw(op, args, msg) ==
  [op |-> op, args |-> args, kind |-> "error", message |-> msg]

Options(op, args, challenge, credentials) ==
  [op |-> op, args |-> args, kind |-> "options", challenge |-> challenge,
   credentials |-> credentials]

Verification(op, args, verified) ==
  [op |-> op, args |-> args, kind |-> "verification", verified |-> verified]

CreateRegOp == "createPasskeyRegistrationOptions"
VerifyRegOp == "verifyPasskeyRegistrationResponse"
CreateAuthOp == "createPasskeyAuthenticationOptions"
VerifyAuthOp == "verifyPasskeyAuthenticationResponse"

ConfigErrorMsg == "Passkey configuration is missing rpId or origin."
RegChallengeErrorMsg == "Unknown or expired registration challenge."
AuthChallengeErrorMsg == "Unknown or expired authentication challenge."
UnknownCredentialMsg == "Unknown credential."
RequiredFieldsMsg == "userId, username, and displayName are required."
LibraryErrorMsg == "rejected by the WebAuthn library"

\* --------------------------------------------------------------- helpers
\* variant: only the relying-party id is checked
assertPasskeyConfigRpIdOnly == config.passkey.rpId # ""

assertPasskeyConfig == config.passkey.rpId # "" /\ config.passkey.origin # ""

\* variant: the filter on the user is dropped
listCredentialsOfAllUsers(userId) ==
  {credentialStore[k] : k \in DOMAIN credentialStore}

\* [...credentialStore.values()].filter(c => c.userId === userId)
listCredentialsForUser(userId) ==
  {credentialStore[k] : k \in {j \in DOMAIN credentialStore : credentialStore[j].userId = userId}}

\* { id: cred.credentialID, type: 'public-key', transports: cred.transports }
CredentialDescriptors(userId) ==
  {[id |-> cred.credentialID, type |-> "public-key", transports |-> cred.transports] :
     cred \in listCredentialsForUser(userId)}

\* expectedChallenge || response.challenge
ResolveChallenge(expectedChallenge, responseChallenge) ==
  IF expectedChallenge # "" THEN expectedChallenge ELSE responseChallenge

\* variant: the existence check is skipped
ChallengeKnownAlways(challenge) == TRUE

\* !(!challenge || !record)
ChallengeKnown(challenge) == challenge # "" /\ MapHas(challengeStore, challenge)

\* response.id || response.rawId
ResolveCredentialId(id, rawId) == IF id # <<>> THEN id ELSE rawId

\* variant: the credential lookup is not checked
CredentialKnownAlways(credentialIdB64) == TRUE

\* !(!stored)
CredentialKnown(credentialIdB64) == MapHas(credentialStore, credentialIdB64)

\* { userId, createdAt: Date.now() }
ChallengeRecord(userId) == [userId |-> userId, createdAt |-> now]

\* a new call takes the first free slot (the slots are interchangeable)
FreeSlot(p) == pc[p] = "idle" /\ \A q \in Calls : q < p => pc[q] # "idle"

Finish(p, r) ==
  /\ pc' = [pc EXCEPT ![p] = "idle"]
  /\ local' = [local EXCEPT ![p] = NoLocal]
  /\ ret' = r

Suspend(p, at, l) ==
  /\ pc' = [pc EXCEPT ![p] = at]
  /\ local' = [local EXCEPT ![p] = l]
  /\ UNCHANGED ret

Begin(p) ==
  /\ FreeSlot(p)
  /\ started < MaxStarted
  /\ started' = started + 1

\* ------------------------------------- createPasskeyRegistrationOptions
\* variant: only the user id is required
RequiredFieldsMissingUserIdOnly(userId, username, displayName) == userId = ""

\* !userId || !username || !displayName
RequiredFieldsMissing(userId, username, displayName) ==
  userId = "" \/ username = "" \/ displayName = ""

\* The await on generateRegistrationOptions separates only the building of the
\* exclusion list from challengeStore.set, which uses the call's own userId,
\* the library's challenge and Date.now() read after the await: the call is
\* one step, taken when the library's promise resolves.
CreateReg(p, userId, username, displayName, challenge) ==
  /\ Begin(p)
  /\ LET args == [userId |-> userId, username |-> username, displayName |-> displayName] IN
     IF ~assertPasskeyConfig
       THEN /\ Finish(p, Throw(CreateRegOp, args, ConfigErrorMsg))
            /\ UNCHANGED <<challengeStore, consumed, regIssued>>
     ELSE IF RequiredFieldsMissing(userId, username, displayName)
       THEN /\ Finish(p, Throw(CreateRegOp, args, RequiredFieldsMsg))
            /\ UNCHANGED <<challengeStore, consumed, regIssued>>
     ELSE /\ challengeStore' = MapSet(challengeStore, challenge, ChallengeRecord(userId))
          /\ consumed' = consumed \ {challenge}
          /\ regIssued' = regIssued \cup {challenge}
          /\ Finish(p, Options(CreateRegOp, args, challenge, CredentialDescriptors(userId)))
  /\ UNCHANGED <<config, credentialStore, now, oauthVars>>

\* ------------------------------------- verifyPasskeyRegistrationResponse
VerifyRegCall(p, expectedChallenge, responseChallenge, transports) ==
  /\ Begin(p)
  /\ LET challenge == ResolveChallenge(expectedChallenge, responseChallenge)
         args == [challenge |-> challenge]
     IN
     IF ~assertPasskeyConfig THEN Finish(p, Throw(VerifyRegOp, args, ConfigErrorMsg))
     ELSE IF ~ChallengeKnown(challenge)
       THEN Finish(p, Throw(VerifyRegOp, args, RegChallengeErrorMsg))
     ELSE Suspend(p, "verifyRegistrationResponse",
                  [op |-> VerifyRegOp, args |-> args, challenge |-> challenge,
                   record |-> MapGet(challengeStore, challenge),
                   transports |-> transports])
  /\ UNCHANGED <<config, challengeStore, credentialStore, now, consumed, regIssued, oauthVars>>

\* variant: the credential is stored for a fixed user, not the challenge's
NewCredentialFixedUser(record, info, transports) ==
  [userId |-> "u1",
   credentialID |-> info.credentialID,
   credentialPublicKey |-> info.credentialPublicKey,
   counter |-> info.counter,
   transports |-> transports]

NewCredential(record, info, transports) ==
  [userId |-> record.userId,
   credentialID |-> info.credentialID,
   credentialPublicKey |-> info.credentialPublicKey,
   counter |-> info.counter,
   transports |-> transports]

\* variant: the challenge is not deleted
ChallengeStoreKept(challenge) == challengeStore

\* this.challengeStore.delete(challenge)
ChallengeStoreAfterVerified(challenge) == MapDelete(challengeStore, challenge)

\* variant: a rejected registration drops the challenge
ChallengeStoreDropped(challenge) == MapDelete(challengeStore, challenge)

\* verification.verified is false: the stores are not touched
ChallengeStoreAfterRejected(challenge) == challengeStore

RegistrationInfos ==
  [credentialID : CredentialIDs, credentialPublicKey : PublicKeys, counter : Counters]

\* the library resolves with verified = true and registrationInfo = info
VerifyRegVerified(p, info) ==
  /\ pc[p] = "verifyRegistrationResponse"
  /\ credentialStore' = MapSet(credentialStore, CredentialKey(info.credentialID),
                               NewCredential(local[p].record, info, local[p].transports))
  /\ challengeStore' = ChallengeStoreAfterVerified(local[p].challenge)
  /\ consumed' = consumed \cup {local[p].challenge}
  /\ regIssued' = regIssued \ {local[p].challenge}
  /\ Finish(p, Verification(VerifyRegOp, local[p].args, TRUE))
  /\ UNCHANGED <<config, now, started, oauthVars>>

\* the library resolves with verified = false, or rejects
VerifyRegRejected(p, throws) ==
  /\ pc[p] = "verifyRegistrationResponse"
  /\ challengeStore' = ChallengeStoreAfterRejected(local[p].challenge)
  /\ Finish(p, IF throws THEN Throw(VerifyRegOp, local[p].args, LibraryErrorMsg)
               ELSE Verification(VerifyRegOp, local[p].args, FALSE))
  /\ UNCHANGED <<config, credentialStore, now, consumed, started, regIssued, oauthVars>>

\* ----------------------------------- createPasskeyAuthenticationOptions
\* one step, as createPasskeyRegistrationOptions
CreateAuth(p, userId, challenge) ==
  /\ Begin(p)
  /\ LET args == [userId |-> userId] IN
     IF ~assertPasskeyConfig
       THEN /\ Finish(p, Throw(CreateAuthOp, args, ConfigErrorMsg))
            /\ UNCHANGED <<challengeStore, consumed, regIssued>>
     ELSE /\ challengeStore' = MapSet(challengeStore, challenge, ChallengeRecord(userId))
          /\ consumed' = consumed \ {challenge}
          /\ regIssued' = regIssued \ {challenge}
          /\ Finish(p, Options(CreateAuthOp, args, challenge, CredentialDescriptors(userId)))
  /\ UNCHANGED <<config, credentialStore, now, oauthVars>>

\* ----------------------------------- verifyPasskeyAuthenticationResponse
VerifyAuthCall(p, expectedChallenge, responseChallenge, id, rawId) ==
  /\ Begin(p)
  /\ LET challenge == ResolveChallenge(expectedChallenge, responseChallenge)
         credentialIdB64 == ResolveCredentialId(id, rawId)
         args == [challenge |-> challenge, id |-> credentialIdB64]
     IN
     IF ~assertPasskeyConfig THEN Finish(p, Throw(VerifyAuthOp, args, ConfigErrorMsg))
     ELSE IF ~ChallengeKnown(challenge)
       THEN Finish(p, Throw(VerifyAuthOp, args, AuthChallengeErrorMsg))
     ELSE IF ~CredentialKnown(credentialIdB64)
       THEN Finish(p, Throw(VerifyAuthOp, args, UnknownCredentialMsg))
     ELSE Suspend(p, "verifyAuthenticationResponse",
                  [op |-> VerifyAuthOp, args |-> args, challenge |-> challenge,
                   credentialIdB64 |-> credentialIdB64,
                   stored |-> MapGet(credentialStore, credentialIdB64)])
  /\ UNCHANGED <<config, challengeStore, credentialStore, now, consumed, regIssued, oauthVars>>

\* stored.counter = newCounter; credentialStore.set(credentialIdB64, stored)
\* (stored is the record read before the await, with the counter passed then)
StoredAfterVerified(stored, newCounter) == [stored EXCEPT !.counter = newCounter]

\* the library accepts only a counter not below the one it was passed
LibraryNewCounters(passed) == {c \in Counters : c >= passed}

\* variant: the challenge is looked up again after the await
VerifyAuthVerifiedRechecked(p, newCounter) ==
  /\ pc[p] = "verifyAuthenticationResponse"
  /\ MapHas(challengeStore, local[p].challenge)
  /\ newCounter \in LibraryNewCounters(local[p].stored.counter)
  /\ credentialStore' = MapSet(credentialStore, local[p].credentialIdB64,
                               StoredAfterVerified(local[p].stored, newCounter))
  /\ challengeStore' = ChallengeStoreAfterVerified(local[p].challenge)
  /\ consumed' = consumed \cup {local[p].challenge}
  /\ regIssued' = regIssued \ {local[p].challenge}
  /\ Finish(p, Verification(VerifyAuthOp, local[p].args, TRUE))
  /\ UNCHANGED <<config, now, started, oauthVars>>

VerifyAuthVerified(p, newCounter) ==
  /\ pc[p] = "verifyAuthenticationResponse"
  /\ newCounter \in LibraryNewCounters(local[p].stored.counter)
  /\ credentialStore' = MapSet(credentialStore, local[p].credentialIdB64,
                               StoredAfterVerified(local[p].stored, newCounter))
  /\ challengeStore' = ChallengeStoreAfterVerified(local[p].challenge)
  /\ consumed' = consumed \cup {local[p].challenge}
  /\ regIssued' = regIssued \ {local[p].challenge}
  /\ Finish(p, Verification(VerifyAuthOp, local[p].args, TRUE))
  /\ UNCHANGED <<config, now, started, oauthVars>>

VerifyAuthRejected(p, throws) ==
  /\ pc[p] = "verifyAuthenticationResponse"
  /\ Finish(p, IF throws THEN Throw(VerifyAuthOp, local[p].args, LibraryErrorMsg)
               ELSE Verification(VerifyAuthOp, local[p].args, FALSE))
  /\ UNCHANGED <<config, challengeStore, credentialStore, now, consumed, started,
                 regIssued, oauthVars>>

\* ------------------------------------------------------------------ time
\* variant: challenges stored before the new time are evicted
TickExpiring ==
  /\ now < MaxTime
  /\ now' = now + 1
  /\ challengeStore' =
       [c \in {d \in DOMAIN challengeStore : challengeStore[d].createdAt >= now + 1}
          |-> challengeStore[c]]
  /\ UNCHANGED <<config, credentialStore, pc, local, ret, consumed,
                 started, regIssued, oauthVars>>

\* Date.now() advances
Tick ==
  /\ now < MaxTime
  /\ now' = now + 1
  /\ UNCHANGED <<config, challengeStore, credentialStore, pc, local, ret, consumed,
                 started, regIssued, oauthVars>>

\* ---------------------------------------------------- constructor, Init
PasskeyConfigs ==
  [rpName : {"Passless"}, rpId : {"", "localhost"}, origin : {"", "http://localhost:3000"}]

DefaultOAuthConfig ==
  [clientId |-> <<"abc">>, clientSecret |-> <<"s3cret">>,
   redirectUri |-> <<"http", ":", "/", "/", "localhost", "/", "cb">>]

\* config.credentialStore || new Map(): a fresh Map, or the caller's store
\* holding a credential registered before a restart
InitialCredentialStores ==
  { EmptyMap,
    MapSet(EmptyMap, Base64url(<<1>>),
           [userId |-> "u1", credentialID |-> <<1>>, credentialPublicKey |-> "pk1",
            counter |-> 0, transports |-> <<"usb">>]) }

InitPasskeyCalls ==
  /\ pc = [p \in Calls |-> "idle"]
  /\ local = [p \in Calls |-> NoLocal]
  /\ ret = NoResult
  /\ now = 0
  /\ consumed = {}
  /\ started = 0
  /\ regIssued = {}

InitOAuthCalls ==
  /\ authUrl = NoResult
  /\ xpc = "idle"
  /\ xlocal = NoLocal
  /\ http = <<>>
  /\ xret = NoResult

Init ==
  /\ config \in [passkey : PasskeyConfigs, google : {DefaultOAuthConfig},
                 yandex : {DefaultOAuthConfig}]
  /\ challengeStore = EmptyMap
  /\ credentialStore \in InitialCredentialStores
  /\ InitPasskeyCalls
  /\ InitOAuthCalls

\* ------------------------------------------------------------------ Next
UserInputs == Users \cup {""}
\* <<expectedChallenge, response.challenge>>: either, both or neither given
ChallengeInputs ==
  {<<e, "">> : e \in Challenges \cup {""}} \cup {<<"", r>> : r \in Challenges}
    \cup {<<"c1", "c2">>}
\* <<response.id, response.rawId>>: either, both or neither given
IdInputs ==
  {<<i, <<>> >> : i \in ResponseIds \cup {<<>>}} \cup {<< <<>>, w>> : w \in ResponseIds}
    \cup {<<Base64url(<<1>>), Base64url(<<251, 240>>)>>}

Next ==
  \/ \E p \in Calls, u \in UserInputs, n \in {"", "name"}, d \in {"", "Name"},
        c \in Challenges : CreateReg(p, u, n, d, c)
  \/ \E p \in Calls, c \in ChallengeInputs, t \in TransportInputs :
       VerifyRegCall(p, c[1], c[2], t)
  \/ \E p \in Calls, info \in RegistrationInfos : VerifyRegVerified(p, info)
  \/ \E p \in Calls, t \in BOOLEAN : VerifyRegRejected(p, t)
  \/ \E p \in Calls, u \in UserInputs, c \in Challenges : CreateAuth(p, u, c)
  \/ \E p \in Calls, c \in ChallengeInputs, i \in IdInputs :
       VerifyAuthCall(p, c[1], c[2], i[1], i[2])
  \/ \E p \in Calls, c \in Counters : VerifyAuthVerified(p, c)
  \/ \E p \in Calls, t \in BOOLEAN : VerifyAuthRejected(p, t)

\* createdAt is written and never read: under Spec the clock stands still
Spec == Init /\ [][Next]_vars

\* the same calls with the clock advancing between them
NextClock == Next \/ Tick

SpecClock == Init /\ [][NextClock]_vars

\* only authentication calls are made (against a store of registered credentials)
NextAuth ==
  \/ \E p \in Calls, u \in UserInputs, c \in Challenges : CreateAuth(p, u, c)
  \/ \E p \in Calls, c \in ChallengeInputs, i \in IdInputs :
       VerifyAuthCall(p, c[1], c[2], i[1], i[2])
  \/ \E p \in Calls, c \in Counters : VerifyAuthVerified(p, c)
  \/ \E p \in Calls, t \in BOOLEAN : VerifyAuthRejected(p, t)

SpecAuth == Init /\ [][NextAuth]_vars

\* an instance constructed without stores (both are fresh Maps), on which
\* options are issued and registrations verified
InitFresh ==
  /\ Init
  /\ credentialStore = EmptyMap

NextFresh ==
  \/ \E p \in Calls, u \in UserInputs, n \in {"", "name"}, d \in {"", "Name"},
        c \in Challenges : CreateReg(p, u, n, d, c)
  \/ \E p \in Calls, c \in ChallengeInputs, t \in TransportInputs :
       VerifyRegCall(p, c[1], c[2], t)
  \/ \E p \in Calls, info \in RegistrationInfos : VerifyRegVerified(p, info)
  \/ \E p \in Calls, t \in BOOLEAN : VerifyRegRejected(p, t)
  \/ \E p \in Calls, u \in UserInputs, c \in Challenges : CreateAuth(p, u, c)

SpecFresh == InitFresh /\ [][NextFresh]_vars

\* ================================================================= OAuth
\* A string is a sequence of pieces: a piece is one reserved character or a run
\* of characters that URLSearchParams leaves as they are (letters, digits, _ . - *).
GoogleConfigs ==
  { DefaultOAuthConfig,
    [clientId |-> <<"id", "&", "x">>, clientSecret |-> <<"s", "=", "1">>,
     redirectUri |-> <<"https", ":", "/", "/", "app.example", "/", "cb", "?", "a", "=", "b">>] }

YandexConfigs ==
  { DefaultOAuthConfig,
    [clientId |-> <<"ya", " ", "id">>, clientSecret |-> <<"50", "%">>,
     redirectUri |-> <<"http", ":", "/", "/", "localhost", "/", "ya", "+", "cb">>] }

Providers == {"google", "yandex", "github", ""}
States == { <<>>, <<"xyz">>, <<"a", " ", "b">>, <<"x", "&", "prompt", "=", "none">>,
            <<"100", "%", "2", "6">>, <<"1", "+", "1">> }
Codes == { <<>>, <<"4", "/", "code">> }
RedirectOverrides == { <<>>, <<"http", ":", "/", "/", "other", "/", "cb">> }
Statuses == {200, 201, 400, 401, 500}
AccessTokens == {"at1", "at2"}

GoogleAuthEndpoint == "https://accounts.google.com/o/oauth2/v2/auth"
YandexAuthEndpoint == "https://oauth.yandex.com/authorize"
GoogleTokenEndpoint == "https://oauth2.googleapis.com/token"
YandexTokenEndpoint == "https://oauth.yandex.com/token"
GoogleProfileEndpoint == "https://openidconnect.googleapis.com/v1/userinfo"
YandexProfileEndpoint == "https://login.yandex.ru/info?format=json"
GoogleScope == <<"openid", " ", "email", " ", "profile">>
YandexScope == <<"login", ":", "info", " ", "login", ":", "email">>

UnsupportedProviderMsg == "Unsupported provider. Use \"google\" or \"yandex\"."
CodeRequiredMsg == "Authorization code is required."
TokenExchangeFailedMsg == "Token exchange failed"
ProfileFetchFailedMsg == "Profile fetch failed"
FetchRejectedMsg == "fetch failed"
JsonRejectedMsg == "Unexpected token in JSON"

\* the percent-encoding of the reserved characters of the model's alphabet
PercentCode(ch) ==
  CASE ch = ":" -> <<"%", "3", "A">>
    [] ch = "/" -> <<"%", "2", "F">>
    [] ch = "?" -> <<"%", "3", "F">>
    [] ch = "&" -> <<"%", "2", "6">>
    [] ch = "=" -> <<"%", "3", "D">>
    [] ch = "+" -> <<"%", "2", "B">>
    [] ch = "%" -> <<"%", "2", "5">>
    [] OTHER -> <<ch>>

\* variant: values are put into the query as they are
EncodePieceVerbatim(ch) == <<ch>>

\* application/x-www-form-urlencoded: space becomes +, reserved bytes %XX
EncodePiece(ch) == IF ch = " " THEN <<"+">> ELSE PercentCode(ch)

RECURSIVE FormEncode(_)
FormEncode(str) ==
  IF str = <<>> THEN <<>> ELSE EncodePiece(Head(str)) \o FormEncode(Tail(str))

\* URLSearchParams.toString(): name=value pairs joined by &
RECURSIVE SearchParamsToString(_)
SearchParamsToString(params) ==
  IF params = <<>> THEN <<>>
  ELSE FormEncode(<<params[1][1]>>) \o <<"=">> \o FormEncode(params[1][2])
         \o (IF Len(params) = 1 THEN <<>> ELSE <<"&">> \o SearchParamsToString(Tail(params)))

\* variant: any provider other than google is treated as yandex
ProviderBranchDefaultYandex(provider) ==
  IF provider = "google" THEN "google" ELSE "yandex"

\* provider === 'google' ... provider === 'yandex' ... throw
ProviderBranch(provider) ==
  IF provider = "google" THEN "google"
  ELSE IF provider = "yandex" THEN "yandex"
  ELSE "unsupported"

AuthParams(provider, state) ==
  IF provider = "google"
    THEN << <<"client_id", config.google.clientId>>,
            <<"redirect_uri", config.google.redirectUri>>,
            <<"response_type", <<"code">> >>,
            <<"scope", GoogleScope>>,
            <<"access_type", <<"offline">> >>,
            <<"prompt", <<"consent">> >>,
            <<"state", state>> >>
    ELSE << <<"client_id", config.yandex.clientId>>,
            <<"redirect_uri", config.yandex.redirectUri>>,
            <<"response_type", <<"code">> >>,
            <<"scope", YandexScope>>,
            <<"state", state>> >>

OAuthThrow(op, args, msg) == [op |-> op, args |-> args, kind |-> "error", message |-> msg]

getAuthUrl(provider, state) ==
  LET args == [provider |-> provider, state |-> state] IN
  CASE ProviderBranch(provider) = "google" ->
         [op |-> "getAuthUrl", args |-> args, kind |-> "url",
          url |-> <<GoogleAuthEndpoint, "?">> \o SearchParamsToString(AuthParams("google", state))]
    [] ProviderBranch(provider) = "yandex" ->
         [op |-> "getAuthUrl", args |-> args, kind |-> "url",
          url |-> <<YandexAuthEndpoint, "?">> \o SearchParamsToString(AuthParams("yandex", state))]
    [] OTHER -> OAuthThrow("getAuthUrl", args, UnsupportedProviderMsg)

GetAuthUrl(provider, state) ==
  /\ authUrl' = getAuthUrl(provider, state)
  /\ UNCHANGED <<config, passkeyVars, xpc, xlocal, http, xret>>

\* ---------------------------------------------------------- exchangeCode
TokenRequest(branch, code, overrideRedirectUri) ==
  LET cfg == IF branch = "google" THEN config.google ELSE config.yandex IN
  [method |-> "POST",
   url |-> IF branch = "google" THEN GoogleTokenEndpoint ELSE YandexTokenEndpoint,
   body |-> << <<"grant_type", <<"authorization_code">> >>,
               <<"code", code>>,
               <<"client_id", cfg.clientId>>,
               <<"client_secret", cfg.clientSecret>>,
               <<"redirect_uri",
                 IF overrideRedirectUri # <<>> THEN overrideRedirectUri ELSE cfg.redirectUri>> >>,
   bearer |-> "",
   status |-> 0]

\* variant: the Authorization header is left out
ProfileRequestWithoutToken(branch, accessToken) ==
  [method |-> "GET",
   url |-> IF branch = "google" THEN GoogleProfileEndpoint ELSE YandexProfileEndpoint,
   body |-> <<>>,
   bearer |-> "",
   status |-> 0]

ProfileRequest(branch, accessToken) ==
  [method |-> "GET",
   url |-> IF branch = "google" THEN GoogleProfileEndpoint ELSE YandexProfileEndpoint,
   body |-> <<>>,
   bearer |-> accessToken,
   status |-> 0]

ExchangeCall(provider, code, overrideRedirectUri) ==
  /\ xpc = "idle"
  /\ LET args == [provider |-> provider, code |-> code] IN
     IF code = <<>>
       THEN /\ xret' = OAuthThrow("exchangeCode", args, CodeRequiredMsg)
            /\ http' = <<>>
            /\ UNCHANGED <<xpc, xlocal>>
     ELSE IF ProviderBranch(provider) = "unsupported"
       THEN /\ xret' = OAuthThrow("exchangeCode", args, UnsupportedProviderMsg)
            /\ http' = <<>>
            /\ UNCHANGED <<xpc, xlocal>>
     ELSE /\ http' = <<TokenRequest(ProviderBranch(provider), code, overrideRedirectUri)>>
          /\ xpc' = "token"
          /\ xlocal' = [op |-> "exchangeCode", args |-> args,
                        branch |-> ProviderBranch(provider), token |-> ""]
          /\ xret' = NoResult
  /\ UNCHANGED <<config, passkeyVars, authUrl>>

\* variant: only server errors count as failures
ResOkBelow500(status) == status < 500

\* Response.ok
ResOk(status) == status >= 200 /\ status <= 299

Answered(i, status) == [http EXCEPT ![i].status = status]

ExchangeFails(msg, status) ==
  /\ xret' = [op |-> "exchangeCode", args |-> xlocal.args, kind |-> "error",
              message |-> msg, status |-> status]
  /\ xpc' = "idle"
  /\ xlocal' = NoLocal

\* the token endpoint answers the POST; accessToken is what res.json() holds,
\* parses is whether res.json() resolves
TokenResponse(status, accessToken, parses) ==
  /\ xpc = "token"
  /\ IF ~ResOk(status)
       THEN /\ http' = Answered(1, status)
            /\ ExchangeFails(TokenExchangeFailedMsg, status)
     ELSE IF ~parses
       THEN /\ http' = Answered(1, status)
            /\ ExchangeFails(JsonRejectedMsg, status)
     ELSE /\ http' = Append(Answered(1, status), ProfileRequest(xlocal.branch, accessToken))
          /\ xpc' = "profile"
          /\ xlocal' = [xlocal EXCEPT !.token = accessToken]
          /\ UNCHANGED xret
  /\ UNCHANGED <<config, passkeyVars, authUrl>>

ProfileResponse(status, profile, parses) ==
  /\ xpc = "profile"
  /\ http' = Answered(2, status)
  /\ IF ~ResOk(status) THEN ExchangeFails(ProfileFetchFailedMsg, status)
     ELSE IF ~parses THEN ExchangeFails(JsonRejectedMsg, status)
     ELSE /\ xret' = [op |-> "exchangeCode", args |-> xlocal.args, kind |-> "result",
                      token |-> xlocal.token, profile |-> profile]
          /\ xpc' = "idle"
          /\ xlocal' = NoLocal
  /\ UNCHANGED <<config, passkeyVars, authUrl>>

\* fetch rejects (no response)
FetchRejected ==
  /\ xpc \in {"token", "profile"}
  /\ ExchangeFails(FetchRejectedMsg, 0)
  /\ UNCHANGED <<config, passkeyVars, authUrl, http>>

\* config.challengeStore || new Map(), config.credentialStore || new Map():
\* fresh Maps, or the caller's stores
InitialStores ==
  { <<EmptyMap, EmptyMap>>,
    <<MapSet(EmptyMap, "c1", [userId |-> "u1", createdAt |-> 0]),
      MapSet(EmptyMap, Base64url(<<1>>),
             [userId |-> "u1", credentialID |-> <<1>>, credentialPublicKey |-> "pk1",
              counter |-> 0, transports |-> <<"usb">>])>> }

InitOAuth ==
  /\ config \in [passkey : {[rpName |-> "Passless", rpId |-> "localhost",
                             origin |-> "http://localhost:3000"]},
                 google : GoogleConfigs, yandex : YandexConfigs]
  /\ \E stores \in InitialStores :
       challengeStore = stores[1] /\ credentialStore = stores[2]
  /\ InitPasskeyCalls
  /\ InitOAuthCalls

NextOAuth ==
  \/ \E provider \in Providers, state \in States : GetAuthUrl(provider, state)
  \/ \E provider \in Providers, code \in Codes, o \in RedirectOverrides :
       ExchangeCall(provider, code, o)
  \/ \E status \in Statuses, t \in AccessTokens, parses \in BOOLEAN :
       TokenResponse(status, t, parses)
  \/ \E status \in Statuses, profile \in {"profile1"}, parses \in BOOLEAN :
       ProfileResponse(status, profile, parses)
  \/ FetchRejected

SpecOAuth == InitOAuth /\ [][NextOAuth]_vars

\* ------------------------------------------- every operation, interleaved
\* authentication calls, the clock, and the OAuth operations (one input each)
NextRetain ==
  \/ NextAuth
  \/ Tick
  \/ GetAuthUrl("google", <<"xyz">>)
  \/ \E code \in Codes : ExchangeCall("yandex", code, <<>>)
  \/ TokenResponse(200, "at1", TRUE)
  \/ \E status \in {200, 500} : ProfileResponse(status, "profile1", TRUE)

SpecRetain == Init /\ [][NextRetain]_vars

\* ================================================================ claims
ConfigComplete == config.passkey.rpId # "" /\ config.passkey.origin # ""

StoresUnchanged == challengeStore' = challengeStore /\ credentialStore' = credentialStore

\* the step is a call that returned or threw before any await
CallCompletedAtOnce(op) == started' = started + 1 /\ pc' = pc /\ ret'.op = op

\* the step is a call that got as far as its library call
CallSuspended(p) == started' = started + 1 /\ pc[p] = "idle" /\ pc'[p] # "idle"

ChallengeErrorMsg(op) ==
  IF op = VerifyRegOp THEN RegChallengeErrorMsg ELSE AuthChallengeErrorMsg

VerifyOps == {VerifyRegOp, VerifyAuthOp}

\* C1: a verification call (registration or authentication) made for a challenge
\* that an earlier verification consumed, and that no option-issuing call has
\* stored again since, fails with the unknown-or-expired-challenge error: it
\* never reaches the library.
C1_ChallengeSingleUse ==
  [][/\ \A p \in Calls : CallSuspended(p) => local'[p].challenge \notin consumed
     /\ \A op \in VerifyOps :
          (CallCompletedAtOnce(op) /\ ret'.args.challenge \in consumed) =>
            ret' = Throw(op, ret'.args, ChallengeErrorMsg(op))]_vars

C1_Witness ==
  /\ ret.op \in VerifyOps
  /\ ret.kind = "error"
  /\ ret.message = ChallengeErrorMsg(ret.op)
  /\ ret.args.challenge \in consumed

\* C2: with the configuration complete, a verification call whose resolved
\* challenge is empty or has no record fails with the unknown-or-expired error
\* of its ceremony, is not suspended at the library, and changes neither store.
C2_UnknownChallengeFailsClosed ==
  [][ConfigComplete =>
       /\ \A p \in Calls :
            CallSuspended(p) =>
              (local'[p].challenge # "" /\ local'[p].challenge \in DOMAIN challengeStore)
       /\ \A op \in VerifyOps :
            ( /\ CallCompletedAtOnce(op)
              /\ (ret'.args.challenge = "" \/ ret'.args.challenge \notin DOMAIN challengeStore) ) =>
                /\ ret' = Throw(op, ret'.args, ChallengeErrorMsg(op))
                /\ StoresUnchanged]_vars

C2_Witness ==
  /\ ret = Throw(VerifyAuthOp, [challenge |-> "c2", id |-> Base64url(<<1>>)],
                 AuthChallengeErrorMsg)
  /\ DOMAIN challengeStore = {"c1"}
  /\ consumed = {}

\* C3: when the library reports verified = false for a registration response, or
\* raises, the step that completes the call changes neither the challenge store
\* nor the credential store, so the challenge the call looked up is still there.
C3_RejectedRegistrationKeepsChallenge ==
  [][\A p \in Calls :
       ( /\ pc[p] = "verifyRegistrationResponse"
         /\ pc'[p] = "idle"
         /\ ret' # Verification(VerifyRegOp, local[p].args, TRUE) ) =>
           /\ StoresUnchanged
           /\ (local[p].challenge \in DOMAIN challengeStore =>
                 local[p].challenge \in DOMAIN challengeStore')]_vars

C3_Witness ==
  /\ ret.op = VerifyRegOp
  /\ ret.kind = "verification"
  /\ ~ret.verified
  /\ ret.args.challenge \in DOMAIN challengeStore
  /\ credentialStore = EmptyMap

\* C4: over authentication verification calls alone, interleaved, with the
\* library reporting only counters not below the one it was passed, the counter
\* stored for a credential id never decreases from one step to the next.
C4_CounterNeverDecreases ==
  [][\A k \in DOMAIN credentialStore :
       /\ k \in DOMAIN credentialStore'
       /\ credentialStore'[k].counter >= credentialStore[k].counter]_vars

\* C5: on empty stores, issuing registration options for u leaves exactly one
\* challenge record, keyed by the returned challenge and mapped to u; the
\* accepted verification of that challenge leaves exactly one credential record,
\* keyed by the base64url credential id, with userId u and the library's
\* counter, and removes the challenge.
C5_RegistrationFlow ==
  [][/\ ( /\ CallCompletedAtOnce(CreateRegOp)
          /\ ret'.kind = "options"
          /\ DOMAIN challengeStore = {} ) =>
            /\ DOMAIN challengeStore' = {ret'.challenge}
            /\ challengeStore'[ret'.challenge].userId = ret'.args.userId
     /\ \A p \in Calls :
          ( /\ pc[p] = "verifyRegistrationResponse"
            /\ DOMAIN credentialStore = {}
            /\ DOMAIN challengeStore = {local[p].challenge}
            /\ challengeStore[local[p].challenge] = local[p].record ) =>
              \A info \in RegistrationInfos :
                VerifyRegVerified(p, info) =>
                  /\ DOMAIN credentialStore' = {Base64url(info.credentialID)}
                  /\ credentialStore'[Base64url(info.credentialID)].userId
                       = challengeStore[local[p].challenge].userId
                  /\ credentialStore'[Base64url(info.credentialID)].counter = info.counter
                  /\ local[p].challenge \notin DOMAIN challengeStore'
                  /\ ret' = Verification(VerifyRegOp, local[p].args, TRUE)]_vars

C5_Witness ==
  /\ ret = Verification(VerifyRegOp, [challenge |-> "c1"], TRUE)
  /\ DOMAIN credentialStore = {Base64url(<<251, 240>>)}
  /\ credentialStore[Base64url(<<251, 240>>)].userId = "u2"
  /\ DOMAIN challengeStore = {}
  /\ started = 2

\* C6: when the relying-party id or the origin is not configured, every passkey
\* call fails with the configuration error, whatever its inputs, is not
\* suspended at the library, and changes neither store.
C6_ConfigurationGuard ==
  [][(started' = started + 1 /\ ~ConfigComplete) =>
       /\ ret'.kind = "error"
       /\ ret'.message = ConfigErrorMsg
       /\ pc' = pc
       /\ StoresUnchanged]_vars

C6_Witness ==
  /\ ~ConfigComplete
  /\ ret = Throw(CreateRegOp, [userId |-> "", username |-> "", displayName |-> ""],
                 ConfigErrorMsg)

\* C10: with a known challenge and a credential identifier that has no record,
\* an authentication verification fails with the unknown-credential error, is
\* not suspended at the library and changes neither store; with the challenge
\* unknown as well, the challenge error is the one raised.
C10_UnknownCredential ==
  [][ConfigComplete =>
       /\ \A p \in Calls :
            (CallSuspended(p) /\ local'[p].op = VerifyAuthOp) =>
              local'[p].credentialIdB64 \in DOMAIN credentialStore
       /\ ( /\ CallCompletedAtOnce(VerifyAuthOp)
            /\ ret'.args.id \notin DOMAIN credentialStore ) =>
              /\ StoresUnchanged
              /\ ret' = Throw(VerifyAuthOp, ret'.args,
                              IF ret'.args.challenge \in DOMAIN challengeStore
                                THEN UnknownCredentialMsg ELSE AuthChallengeErrorMsg)]_vars

C10_Witness ==
  /\ ret.op = VerifyAuthOp
  /\ ret.kind = "error"
  /\ ret.message = UnknownCredentialMsg
  /\ ret.args.challenge \in DOMAIN challengeStore
  /\ ret.args.id \notin DOMAIN credentialStore

\* ---------------------------------------------------------- OAuth claims
\* What the receiver of a query string reads: the pieces between & are split at
\* their first =, then + is read as a space and %XX as the byte it encodes.
Escapes == {":", "/", "?", "&", "=", "+", "%"}

Unescape(a, b) ==
  IF \E ch \in Escapes : PercentCode(ch) = <<"%", a, b>>
    THEN CHOOSE ch \in Escapes : PercentCode(ch) = <<"%", a, b>>
    ELSE "invalid"

RECURSIVE FormDecode(_)
FormDecode(str) ==
  IF str = <<>> THEN <<>>
  ELSE IF Head(str) = "+" THEN <<" ">> \o FormDecode(Tail(str))
  ELSE IF Head(str) = "%" /\ Len(str) >= 3 /\ Unescape(str[2], str[3]) # "invalid"
    THEN <<Unescape(str[2], str[3])>> \o FormDecode(SubSeq(str, 4, Len(str)))
  ELSE <<Head(str)>> \o FormDecode(Tail(str))

FirstIndex(str, sep) ==
  IF \E i \in 1..Len(str) : str[i] = sep
    THEN CHOOSE i \in 1..Len(str) : str[i] = sep /\ \A j \in 1..(i - 1) : str[j] # sep
    ELSE 0

RECURSIVE SplitAt(_, _)
SplitAt(str, sep) ==
  IF FirstIndex(str, sep) = 0 THEN <<str>>
  ELSE <<SubSeq(str, 1, FirstIndex(str, sep) - 1)>>
         \o SplitAt(SubSeq(str, FirstIndex(str, sep) + 1, Len(str)), sep)

ParsePair(piece) ==
  IF FirstIndex(piece, "=") = 0 THEN <<FormDecode(piece), <<>> >>
  ELSE << FormDecode(SubSeq(piece, 1, FirstIndex(piece, "=") - 1)),
          FormDecode(SubSeq(piece, FirstIndex(piece, "=") + 1, Len(piece))) >>

ParseQuery(query) ==
  [i \in 1..Len(SplitAt(query, "&")) |-> ParsePair(SplitAt(query, "&")[i])]

SupportedProviders == {"google", "yandex"}

ExpectedAuthParams(provider, state) ==
  IF provider = "google"
    THEN { << <<"client_id">>, config.google.clientId >>,
           << <<"redirect_uri">>, config.google.redirectUri >>,
           << <<"response_type">>, <<"code">> >>,
           << <<"scope">>, <<"openid", " ", "email", " ", "profile">> >>,
           << <<"state">>, state >>,
           << <<"access_type">>, <<"offline">> >>,
           << <<"prompt">>, <<"consent">> >> }
    ELSE { << <<"client_id">>, config.yandex.clientId >>,
           << <<"redirect_uri">>, config.yandex.redirectUri >>,
           << <<"response_type">>, <<"code">> >>,
           << <<"scope">>, <<"login", ":", "info", " ", "login", ":", "email">> >>,
           << <<"state">>, state >> }

ExpectedAuthEndpoint(provider) ==
  IF provider = "google" THEN "https://accounts.google.com/o/oauth2/v2/auth"
  ELSE "https://oauth.yandex.com/authorize"

\* C7: once the token endpoint has answered the POST with a status outside
\* 200..299, exchangeCode has failed with the 'Token exchange failed' error
\* carrying that status, has returned no result, and no GET was issued.
C7_TokenExchangeFailure ==
  ( /\ Len(http) >= 1
    /\ http[1].status # 0
    /\ ~(http[1].status \in 200..299) ) =>
      /\ xpc = "idle"
      /\ xret.kind = "error"
      /\ xret.message = TokenExchangeFailedMsg
      /\ xret.status = http[1].status
      /\ Len(http) = 1
      /\ http[1].method = "POST"

C7_Witness ==
  /\ xret.op = "exchangeCode"
  /\ xret.kind = "error"
  /\ xret.message = TokenExchangeFailedMsg
  /\ xret.status = 401
  /\ xret.args.provider = "yandex"

\* C8: for google or yandex and any state, getAuthUrl returns the provider's
\* authorization endpoint, a ?, and a query that reads back as exactly the
\* expected parameters, each once, with the configured and given values.
C8_AuthUrlParameters ==
  (authUrl.op = "getAuthUrl" /\ authUrl.args.provider \in SupportedProviders) =>
    /\ authUrl.kind = "url"
    /\ authUrl.url[1] = ExpectedAuthEndpoint(authUrl.args.provider)
    /\ authUrl.url[2] = "?"
    /\ LET params == ParseQuery(SubSeq(authUrl.url, 3, Len(authUrl.url)))
           expected == ExpectedAuthParams(authUrl.args.provider, authUrl.args.state)
       IN /\ Len(params) = Cardinality(expected)
          /\ {params[i] : i \in 1..Len(params)} = expected

C8_Witness ==
  /\ authUrl.kind = "url"
  /\ authUrl.args.provider = "google"
  /\ authUrl.args.state = <<"x", "&", "prompt", "=", "none">>
  /\ config.google.clientId = <<"id", "&", "x">>

\* C9: for a provider other than google and yandex, getAuthUrl fails with the
\* unsupported-provider error and exchangeCode with a non-empty code fails with
\* the same error and issues no request; no OAuth step changes the challenge
\* store, the credential store or the configuration, and getAuthUrl changes
\* nothing of a running exchange.
C9_UnsupportedProvider ==
  [][/\ (authUrl'.op = "getAuthUrl" /\ authUrl'.args.provider \notin SupportedProviders) =>
          authUrl' = OAuthThrow("getAuthUrl", authUrl'.args, UnsupportedProviderMsg)
     /\ xpc' # "idle" => xlocal'.args.provider \in SupportedProviders
     /\ ( /\ xpc' = "idle"
          /\ xret'.op = "exchangeCode"
          /\ xret'.args.provider \notin SupportedProviders
          /\ xret'.args.code # <<>> ) =>
            /\ xret' = OAuthThrow("exchangeCode", xret'.args, UnsupportedProviderMsg)
            /\ http' = <<>>
     /\ authUrl' # authUrl => UNCHANGED <<xpc, xlocal, http, xret>>
     /\ UNCHANGED <<config, challengeStore, credentialStore>>]_vars

C9_Witness ==
  /\ authUrl = OAuthThrow("getAuthUrl", [provider |-> "github", state |-> <<"xyz">>],
                          UnsupportedProviderMsg)
  /\ xret = OAuthThrow("exchangeCode", [provider |-> "github", code |-> <<"4", "/", "code">>],
                       UnsupportedProviderMsg)
  /\ http = <<>>
  /\ DOMAIN challengeStore = {"c1"}

\* ------------------------------------------------- later passkey claims
\* C11: with the passkey configuration complete, a call of
\* createPasskeyRegistrationOptions whose userId, username or displayName is
\* missing or empty fails with the required-fields error, returns no options
\* (the library produced none), and stores no challenge.
C11_RegistrationInputsRequired ==
  [][( /\ ConfigComplete
       /\ CallCompletedAtOnce(CreateRegOp)
       /\ \/ ret'.args.userId = ""
          \/ ret'.args.username = ""
          \/ ret'.args.displayName = "" ) =>
        /\ ret' = Throw(CreateRegOp, ret'.args, RequiredFieldsMsg)
        /\ StoresUnchanged]_vars

C11_Witness ==
  /\ ConfigComplete
  /\ ret.op = CreateRegOp
  /\ ret.kind = "error"
  /\ ret.message = RequiredFieldsMsg
  /\ ret.args.userId = "u1"
  /\ ret.args.username # ""
  /\ ret.args.displayName = ""

\* the fields of a credential record other than its signature counter
FixedFields(cred) ==
  [userId |-> cred.userId, credentialID |-> cred.credentialID,
   credentialPublicKey |-> cred.credentialPublicKey, transports |-> cred.transports]

\* C12: a credential record appears only in the step in which a registration
\* verification returns verified, and no step removes a record or changes the
\* userId, credential id, public key or transports stored under a credential id.
C12_CredentialFieldsFixed ==
  [][/\ \A k \in DOMAIN credentialStore' \ DOMAIN credentialStore :
          \E p \in Calls :
            /\ pc[p] = "verifyRegistrationResponse"
            /\ pc'[p] = "idle"
            /\ ret' = Verification(VerifyRegOp, local[p].args, TRUE)
     /\ \A k \in DOMAIN credentialStore :
          /\ k \in DOMAIN credentialStore'
          /\ FixedFields(credentialStore'[k]) = FixedFields(credentialStore[k])]_vars

\* C13: a verification call suspended at the library can return verified
\* whatever has happened to its challenge since its existence check: the store
\* is not looked at again, so a call whose challenge another call has already
\* consumed still completes with a verified result.
C13_VerifiedAfterConsumption ==
  \A p \in Calls :
    /\ pc[p] = "verifyRegistrationResponse" =>
         \A info \in RegistrationInfos : ENABLED VerifyRegVerified(p, info)
    /\ pc[p] = "verifyAuthenticationResponse" =>
         \A c \in LibraryNewCounters(local[p].stored.counter) :
           ENABLED VerifyAuthVerified(p, c)

\* two calls passed the check for one challenge; one has returned verified and
\* deleted it while the other is still suspended at the library
C13_Witness ==
  \E p \in Calls :
    /\ pc[p] = "verifyAuthenticationResponse"
    /\ ret = Verification(VerifyAuthOp, local[p].args, TRUE)
    /\ local[p].challenge \in consumed
    /\ local[p].challenge \notin DOMAIN challengeStore

\* C15: the exclusion list of createPasskeyRegistrationOptions and the
\* allow-list of createPasskeyAuthenticationOptions name every credential in
\* the credential store whose userId is the given userId, and no credential of
\* another user.
C15_CredentialListOfUser ==
  [][( /\ \/ CallCompletedAtOnce(CreateRegOp)
          \/ CallCompletedAtOnce(CreateAuthOp)
       /\ ret'.kind = "options" ) =>
        /\ \A k \in DOMAIN credentialStore :
             credentialStore[k].userId = ret'.args.userId =>
               \E d \in ret'.credentials :
                 /\ d.id = credentialStore[k].credentialID
                 /\ d.transports = credentialStore[k].transports
        /\ \A d \in ret'.credentials :
             \E k \in DOMAIN credentialStore :
               /\ credentialStore[k].credentialID = d.id
               /\ credentialStore[k].userId = ret'.args.userId]_vars

C15_Witness ==
  /\ ret.op = CreateAuthOp
  /\ ret.kind = "options"
  /\ ret.args.userId = "u2"
  /\ ret.credentials # {}
  /\ \E k \in DOMAIN credentialStore : credentialStore[k].userId = "u1"

C17_ChallengeBoundToUser ==
  [][\A p \in Calls :
       ( /\ pc[p] = "verifyAuthenticationResponse"
         /\ pc'[p] = "idle"
         /\ ret' = Verification(VerifyAuthOp, local[p].args, TRUE)
         /\ local[p].challenge \in DOMAIN challengeStore ) =>
           challengeStore[local[p].challenge].userId = local[p].stored.userId]_vars

\* C18: a challenge stored by createPasskeyRegistrationOptions is never
\* accepted (passed on to the library) or deleted by
\* verifyPasskeyAuthenticationResponse, and a challenge stored by
\* createPasskeyAuthenticationOptions is never accepted or deleted by
\* verifyPasskeyRegistrationResponse.
C18_ChallengeBoundToCeremony ==
  [][\A p \in Calls :
       /\ (CallSuspended(p) /\ local'[p].op = VerifyAuthOp) =>
            local'[p].challenge \notin regIssued
       /\ (CallSuspended(p) /\ local'[p].op = VerifyRegOp) =>
            local'[p].challenge \in regIssued
       /\ ( /\ pc[p] # "idle"
            /\ pc'[p] = "idle"
            /\ local[p].challenge \in DOMAIN challengeStore
            /\ local[p].challenge \notin DOMAIN challengeStore' ) =>
              (local[p].op = VerifyRegOp <=> local[p].challenge \in regIssued)]_vars

\* C19: on an instance started with empty stores, every challenge record has
\* a non-empty userId (createPasskeyAuthenticationOptions stores none for a
\* missing userId), and every credential record has a non-empty userId, the
\* one of the challenge whose verification created it.
C19_UserIdsDefined ==
  /\ [](/\ \A c \in DOMAIN challengeStore : challengeStore[c].userId # ""
        /\ \A k \in DOMAIN credentialStore : credentialStore[k].userId # "")
  /\ [][\A k \in DOMAIN credentialStore' \ DOMAIN credentialStore :
          \E p \in Calls :
            /\ pc[p] = "verifyRegistrationResponse"
            /\ pc'[p] = "idle"
            /\ credentialStore'[k].userId = local[p].record.userId]_vars

\* ------------------------------------------------------ later OAuth claims
Success(status) == status \in 200..299

\* C14: exchangeCode with an empty code fails with the code-required error and
\* issues no request; a call for google or yandex issues one POST to the
\* provider's token endpoint, then, only once that POST was answered with a
\* success status, one GET to the provider's profile endpoint carrying the
\* access token of the POST's response; a request is answered once and never
\* issued again; { token, profile } is returned only when both were answered
\* with success, and a non-success answer to the GET gives the 'Profile fetch
\* failed' error.
C14_ExchangeSequential ==
  [][/\ ( /\ xpc' = "idle"
          /\ xret'.op = "exchangeCode"
          /\ xret'.args.code = <<>> ) =>
            /\ xret' = OAuthThrow("exchangeCode", xret'.args, CodeRequiredMsg)
            /\ http' = <<>>
     /\ (xpc = "idle" /\ xpc' # "idle") =>
          /\ xlocal'.args.code # <<>>
          /\ Len(http') = 1
          /\ http'[1].method = "POST"
          /\ http'[1].url = IF xlocal'.args.provider = "google"
                              THEN GoogleTokenEndpoint ELSE YandexTokenEndpoint
          /\ http'[1].status = 0
     /\ (xpc # "idle" /\ Len(http') > Len(http)) =>
          /\ Len(http) = 1
          /\ Len(http') = 2
          /\ Success(http'[1].status)
          /\ http'[2].method = "GET"
          /\ http'[2].url = IF xlocal.args.provider = "google"
                              THEN GoogleProfileEndpoint ELSE YandexProfileEndpoint
          /\ \A status \in Statuses, t \in AccessTokens, parses \in BOOLEAN :
               TokenResponse(status, t, parses) => http'[2].bearer = t
     /\ xpc = "idle" => (http' = http \/ Len(http') <= 1)
     /\ xpc # "idle" =>
          \A i \in 1..Len(http) :
            /\ [http'[i] EXCEPT !.status = 0] = [http[i] EXCEPT !.status = 0]
            /\ http[i].status # 0 => http'[i] = http[i]
     /\ xret'.kind = "result" =>
          /\ Len(http') = 2
          /\ Success(http'[1].status)
          /\ Success(http'[2].status)
          /\ xret'.token = http'[2].bearer
     /\ ( /\ Len(http') = 2
          /\ http'[2].status # 0
          /\ ~Success(http'[2].status) ) =>
            /\ xret'.kind = "error"
            /\ xret'.message = ProfileFetchFailedMsg
            /\ xret'.status = http'[2].status]_vars

C14_Witness ==
  /\ xret.op = "exchangeCode"
  /\ xret.kind = "result"
  /\ xret.token = "at2"
  /\ Len(http) = 2
  /\ http[1].status = 201
  /\ http[2].bearer = "at2"
  /\ http[2].status = 200
====
